---- MODULE Spec2Model ----
(***************************************************************************)
(* Clarke & Wright Savings heuristic (cws/algorithm.py) on graphs built    *)
(* the way main.py builds them (Customer, get_streets).                    *)
(*                                                                         *)
(* An edge is a pair <<origin, dest>>; the depot is node 0.  A Route       *)
(* object lives in `heap` under its identity (an index), so that aliasing  *)
(* between the active list `routes`, the nodes' back references            *)
(* `node_route` and the routes under mutation is what it is in the code.   *)
(***************************************************************************)
EXTENDS Integers, Sequences, FiniteSets, TLC

VARIABLES
    graph,       \* the instance: n customers, their cities, the list of streets,
                 \* the edges whose inverse is None, the customers with a
                 \* dn_edge or nd_edge of None
    config,      \* CWSConfiguration
    heap,        \* Route objects by identity: <<[edges, cost], ...>>
    routes,      \* heuristic's local list `routes` (identities)
    node_route,  \* node.route for every customer (0: None)
    pool,        \* what is left of savings_iterator
    pc,          \* position of heuristic: "idle", "loop", "returned", "raised"
    err,         \* the exception heuristic ended with ("" if none)
    step,        \* what the last iteration of the merging loop did
    result,      \* the value heuristic returned: [routes, cost]
    cpc,         \* position of the caller: "none" (heuristic is called on its own),
                 \* "call", "baseline", "seed", "iter", "done" (__call__, _metaheuristic)
    runs,        \* number of invocations of heuristic so far
    baseline,    \* __call__: the solution of its first heuristic run
    starting_sol,\* _metaheuristic: its starting solution
    best,        \* _metaheuristic: best, cost
    missed_improvements, \* _metaheuristic: the stagnation counter
    iterations,  \* _metaheuristic: iterations of range(maxiter) done
    gen          \* a biased_randomisation generator consumed on its own

hvars == <<heap, routes, node_route, pool, pc, err, step, result>>
mvars == <<cpc, baseline, starting_sol, best, missed_improvements, iterations>>
vars == <<graph, config, hvars, mvars, runs, gen>>

----------------------------------------------------------------------------
(* Bounds of the instances and of the inputs.                              *)

MaxNodes == 4
MaxDraw == 2
\* the metaheuristic's budgets explored, and the costs of a supplied start
MaxIter == 2
MaxNoImp == 1
\* the arrays handed to a generator consumed on its own
MaxLen == 3

\* the cities lie on the x axis, the depot at its origin (main.py: depot = (0, 0))
Coords == {1, 2}
\* lengths of the list of streets handed to ClarkeWrightSavings
EdgeCounts == 0..4

Depot == 0
Customers(g) == 1..g.n

----------------------------------------------------------------------------
(* Edges (cws/edge.py) as main.py constructs them.                         *)

origin(e) == e[1]
dest(e) == e[2]

\* main.py: distance, for two cities of the x axis
distance(city1, city2) == IF city1 >= city2 THEN city1 - city2 ELSE city2 - city1

city(g, v) == IF v = Depot THEN 0 ELSE g.city[v]

\* main.py: the cost given to a Street by Customer (dn_edge, nd_edge) and by
\* get_streets (s, s_inverse)
cost(g, e) == distance(city(g, origin(e)), city(g, dest(e)))

\* main.py: depot edges carry saving 0; a street and its inverse carry
\* i.nd_edge.cost + j.dn_edge.cost - distance(i, j)
saving(g, e) ==
    IF origin(e) = Depot \/ dest(e) = Depot THEN 0
    ELSE cost(g, <<origin(e), Depot>>) + cost(g, <<Depot, dest(e)>>) - cost(g, e)

inverse(e) == <<dest(e), origin(e)>>

dn_edge(n) == <<Depot, n>>
nd_edge(n) == <<n, Depot>>

----------------------------------------------------------------------------
(* Route (cws/algorithm.py, class Route).                                  *)

RECURSIVE SumCost(_, _)
SumCost(g, edges) ==
    IF edges = <<>> THEN 0 ELSE cost(g, Head(edges)) + SumCost(g, Tail(edges))

Route(g, edges) == [edges |-> edges, cost |-> SumCost(g, edges)]

first_node(r) == dest(r.edges[1])
last_node(r) == origin(r.edges[Len(r.edges)])

\* (a pop at the wrong end)
popleft_wrong_end(g, r) ==
    [edges |-> SubSeq(r.edges, 1, Len(r.edges) - 1),
     cost |-> r.cost - cost(g, r.edges[Len(r.edges)])]

popleft(g, r) == [edges |-> Tail(r.edges), cost |-> r.cost - cost(g, Head(r.edges))]

\* (a pop that forgets the cached cost)
popright_stale_cost(g, r) == [edges |-> SubSeq(r.edges, 1, Len(r.edges) - 1), cost |-> r.cost]

popright(g, r) ==
    [edges |-> SubSeq(r.edges, 1, Len(r.edges) - 1),
     cost |-> r.cost - cost(g, r.edges[Len(r.edges)])]

extend(g, r, edges) == [edges |-> r.edges \o edges, cost |-> r.cost + SumCost(g, edges)]

append(g, r, e) == [edges |-> Append(r.edges, e), cost |-> r.cost + cost(g, e)]

----------------------------------------------------------------------------
(* Helpers of the Python runtime the code relies on.                       *)

RemoveAt(s, k) == SubSeq(s, 1, k - 1) \o SubSeq(s, k + 1, Len(s))

InList(s, x) == \E k \in 1..Len(s) : s[k] = x

\* list.remove(x): drops the first occurrence (the caller handles ValueError)
list_remove(s, x) ==
    RemoveAt(s, CHOOSE k \in 1..Len(s) : s[k] = x /\ \A m \in 1..(k - 1) : s[m] # x)

\* (a ceiling that is never tested)
Le_unbounded(x, maxcost) == TRUE

\* x <= maxcost, where maxcost may be float('inf')
Le(x, maxcost) == maxcost.inf \/ x <= maxcost.val

----------------------------------------------------------------------------
(* savings_list: sorted(edges, key=saving, reverse=True), a stable sort.   *)

\* position of e among the already sorted: behind every edge whose saving
\* is not smaller (stability keeps the input order among equals)
InsertPos(g, sorted, e) ==
    Cardinality({k \in 1..Len(sorted) : saving(g, sorted[k]) >= saving(g, e)})

RECURSIVE SortInto(_, _, _)
SortInto(g, sorted, edges) ==
    IF edges = <<>> THEN sorted
    ELSE LET e == Head(edges)
             p == InsertPos(g, sorted, e)
         IN SortInto(g, SubSeq(sorted, 1, p) \o <<e>> \o SubSeq(sorted, p + 1, Len(sorted)),
                     Tail(edges))

savings_list(g, edges) == SortInto(g, <<>>, edges)

----------------------------------------------------------------------------
(* biased_randomisation: the index popped for a quasi-geometric draw       *)
(* int(math.log(random.random(), 1 - beta)), a natural number.             *)

pop_index(draw, options) == (draw % Len(options)) + 1

\* options.pop(idx): the item, and the list without it
list_pop_keep(options, idx) == [item |-> options[idx], rest |-> options]

list_pop(options, idx) == [item |-> options[idx], rest |-> RemoveAt(options, idx)]

----------------------------------------------------------------------------
(* _reversed: a new Route of the inverse edges in reverse order.           *)

\* (a reversal that keeps the order)
Reverse_keep_order(s) == s

Reverse(s) == [k \in 1..Len(s) |-> s[Len(s) + 1 - k]]

_reversed(g, r) == Route(g, Reverse([k \in 1..Len(r.edges) |-> inverse(r.edges[k])]))

\* every e.inverse of line 176 is an edge: with a None among them
\* Route.__init__ (line 46) raises AttributeError on its cost
HasInverses(g, edges) == \A k \in 1..Len(edges) : edges[k] \notin g.noinverse

----------------------------------------------------------------------------
(* One iteration of heuristic's merging loop, as a function of the run's   *)
(* state: the heap h, the active list rs, the back references nr.          *)

Outcome(h, rs, nr, kind, e) ==
    [heap |-> h, routes |-> rs, node_route |-> nr, kind |-> kind, err |-> e]

\* for e in islice(edges, 0, len(edges) - 1): e.dest.route = id
\* (the depot is a plain string in main.py: setting .route on it raises)
DepotAt(edges) == {k \in 1..(Len(edges) - 1) : dest(edges[k]) = Depot}

RepointUpto(edges) ==
    IF DepotAt(edges) = {} THEN Len(edges) - 1
    ELSE (CHOOSE k \in DepotAt(edges) : \A m \in DepotAt(edges) : k <= m) - 1

Repoint(nr, edges, id) ==
    [n \in DOMAIN nr |->
        IF \E k \in 1..RepointUpto(edges) : dest(edges[k]) = n THEN id ELSE nr[n]]

\* lines 229-240: the merge with no reversal
direct_merge(g, c, h, rs, nr, e, i, j) ==
    IF ~Le(h[i].cost + h[j].cost - saving(g, e), c.maxcost)
    THEN Outcome(h, rs, nr, "direct_infeasible", "")
    ELSE LET rj == popleft(g, h[j])
             ri == extend(g, append(g, popright(g, h[i]), e), rj.edges)
             h2 == [h EXCEPT ![i] = ri, ![j] = rj]
             nr1 == [nr EXCEPT ![dest(e)] = i]
             nr2 == Repoint(nr1, rj.edges, i)
         IN IF DepotAt(rj.edges) # {}
            THEN Outcome(h2, rs, nr2, "direct", "AttributeError")
            ELSE IF ~InList(rs, j)
            THEN Outcome(h2, rs, nr2, "direct", "ValueError")
            ELSE Outcome(h2, list_remove(rs, j), nr2, "direct", "")

\* lines 250-281: the merge helped by reversals
reverse_merge(g, c, h, rs, nr, e, i, j) ==
    LET both == origin(e) = first_node(h[i]) /\ dest(e) = last_node(h[j])
        revi == ~both /\ origin(e) # last_node(h[i]) /\ dest(e) = first_node(h[j])
        revj == ~both /\ ~revi /\ origin(e) = last_node(h[i]) /\ dest(e) # first_node(h[j])
        kind == IF both THEN "both" ELSE IF revi THEN "revi" ELSE IF revj THEN "revj" ELSE "asis"
        old == IF revi THEN i ELSE j
        new == Len(h) + 1
    IN IF (revi \/ revj) /\ ~InList(rs, old)
       THEN Outcome(h, rs, nr, kind, "ValueError")
       ELSE IF (revi \/ revj) /\ ~HasInverses(g, h[old].edges)
       THEN Outcome(h, list_remove(rs, old), nr, kind, "AttributeError")
       ELSE IF both /\ e \in g.noinverse
       THEN Outcome(h, rs, nr, kind, "AttributeError")
       ELSE LET h1 == IF revi \/ revj THEN Append(h, _reversed(g, h[old])) ELSE h
                rs1 == IF revi \/ revj THEN Append(list_remove(rs, old), new) ELSE rs
                redge == IF both THEN inverse(e) ELSE e
                riroute == IF revi THEN new ELSE i
                rjroute == IF revj THEN new ELSE j
            IN IF ~Le(h1[riroute].cost + h1[rjroute].cost - saving(g, redge), c.maxcost)
               THEN Outcome(h1, rs1, nr, kind \o "_infeasible", "")
               ELSE LET rj == popleft(g, h1[rjroute])
                        ri == extend(g, append(g, popright(g, h1[riroute]), redge), rj.edges)
                        h2 == [h1 EXCEPT ![riroute] = ri, ![rjroute] = rj]
                        nr2 == Repoint(nr, ri.edges, riroute)
                    IN IF DepotAt(ri.edges) # {}
                       THEN Outcome(h2, rs1, nr2, kind, "AttributeError")
                       ELSE IF ~InList(rs1, rjroute)
                       THEN Outcome(h2, rs1, nr2, kind, "ValueError")
                       ELSE Outcome(h2, list_remove(rs1, rjroute), nr2, kind, "")

\* lines 212-281: the body of the loop for one edge, past the floor check
process_edge(g, c, h, rs, nr, e) ==
    LET i == nr[origin(e)]
        j == nr[dest(e)]
    IN IF i = j THEN Outcome(h, rs, nr, "same", "")
       ELSE IF h[i].edges = <<>> THEN Outcome(h, rs, nr, "interior", "IndexError")
       ELSE IF origin(e) # first_node(h[i]) /\ origin(e) # last_node(h[i])
       THEN Outcome(h, rs, nr, "interior", "")
       ELSE IF h[j].edges = <<>> THEN Outcome(h, rs, nr, "interior", "IndexError")
       ELSE IF dest(e) # first_node(h[j]) /\ dest(e) # last_node(h[j])
       THEN Outcome(h, rs, nr, "interior", "")
       ELSE IF origin(e) = last_node(h[i]) /\ dest(e) = first_node(h[j])
       THEN direct_merge(g, c, h, rs, nr, e, i, j)
       ELSE IF c.reverse THEN reverse_merge(g, c, h, rs, nr, e, i, j)
       ELSE Outcome(h, rs, nr, "noreverse", "")

\* line 209: the minimum number of routes has been reached
floor_reached_below(rs, c) == Len(rs) < c.minroutes

floor_reached(rs, c) == Len(rs) <= c.minroutes

\* line 210 / 284: return routes, sum(r.cost for r in routes)
RECURSIVE SumRoutes(_, _)
SumRoutes(h, rs) == IF rs = <<>> THEN 0 ELSE h[Head(rs)].cost + SumRoutes(h, Tail(rs))

Solution(h, rs) == [routes |-> [k \in 1..Len(rs) |-> h[rs[k]]], cost |-> SumRoutes(h, rs)]

NoSolution == [routes |-> <<>>, cost |-> 0]
NoStep == [kind |-> "none", edge |-> <<Depot, Depot>>]

----------------------------------------------------------------------------
(* heuristic as a process: begin (lines 190-203), one action per edge      *)
(* drawn from savings_iterator (206-281), end on exhaustion (283-284).     *)

\* (an iterator that is biased whatever the configuration says)
Draws_always_biased == 0..MaxDraw

Draws == IF config.biased THEN 0..MaxDraw ELSE {0}

\* lines 196-199: the customers given a route before Route.__init__ (line 46)
\* raises on a dn_edge or nd_edge of None; all of them on a well-formed graph
dummy_upto(g) ==
    IF g.nodepot = {} THEN g.n
    ELSE (CHOOSE n \in g.nodepot : \A m \in g.nodepot : n <= m) - 1

heuristic_begin ==
    /\ pc = "idle"
    /\ cpc \in {"none", "baseline", "seed", "iter"}
    /\ runs' = runs + 1
    /\ heap' = [n \in 1..dummy_upto(graph) |-> Route(graph, <<dn_edge(n), nd_edge(n)>>)]
    /\ node_route' = [n \in Customers(graph) |->
                        IF n <= dummy_upto(graph) THEN n ELSE node_route[n]]
    /\ routes' = [n \in 1..dummy_upto(graph) |-> n]
    /\ step' = NoStep
    /\ IF dummy_upto(graph) = graph.n
       THEN /\ pool' = savings_list(graph, graph.edges)
            /\ pc' = "loop"
            /\ UNCHANGED err
       ELSE /\ pc' = "raised"
            /\ err' = "AttributeError"
            /\ UNCHANGED pool
    /\ UNCHANGED <<graph, config, result, mvars, gen>>

heuristic_iter ==
    /\ pc = "loop"
    /\ pool # <<>>
    /\ \E draw \in Draws :
         LET popped == list_pop(pool, pop_index(draw, pool))
             edge == popped.item
         IN /\ pool' = popped.rest
            /\ IF floor_reached(routes, config)
               THEN /\ pc' = "returned"
                    /\ result' = Solution(heap, routes)
                    /\ step' = [kind |-> "floor", edge |-> edge]
                    /\ UNCHANGED <<heap, routes, node_route, err>>
               ELSE LET out == process_edge(graph, config, heap, routes, node_route, edge)
                    IN /\ heap' = out.heap
                       /\ routes' = out.routes
                       /\ node_route' = out.node_route
                       /\ err' = out.err
                       /\ step' = [kind |-> out.kind, edge |-> edge]
                       /\ pc' = IF out.err = "" THEN "loop" ELSE "raised"
                       /\ UNCHANGED result
    /\ UNCHANGED <<graph, config, mvars, runs, gen>>

heuristic_end ==
    /\ pc = "loop"
    /\ pool = <<>>
    /\ pc' = "returned"
    /\ result' = Solution(heap, routes)
    /\ UNCHANGED <<graph, config, heap, routes, node_route, pool, err, step, mvars, runs, gen>>

----------------------------------------------------------------------------------------------------------------------------------------
(* __call__ and _metaheuristic around heuristic.                           *)

\* line 310
improves_any(newcost, bestcost) == newcost # bestcost

improves(newcost, bestcost) == newcost < bestcost

\* lines 301-303, then the head of the for loop (305): with no iteration
\* left _metaheuristic returns (318), else heuristic runs again (307)
enter_metaheuristic(sol) ==
    /\ starting_sol' = sol
    /\ best' = sol
    /\ missed_improvements' = 0
    /\ iterations' = 0
    /\ IF config.maxiter = 0
       THEN cpc' = "done" /\ pc' = "returned"
       ELSE cpc' = "iter" /\ pc' = "idle"

\* line 329, entered
call_begin ==
    /\ cpc = "call"
    /\ pc = "idle"
    /\ cpc' = "baseline"
    /\ UNCHANGED <<graph, config, hvars, baseline, starting_sol, best,
                   missed_improvements, iterations, runs, gen>>

\* lines 329-333, once the first heuristic run has returned
call_baseline ==
    /\ cpc = "baseline"
    /\ pc = "returned"
    /\ baseline' = result
    /\ IF ~config.metaheuristic
       THEN /\ cpc' = "done"
            /\ best' = result
            /\ UNCHANGED <<pc, starting_sol, missed_improvements, iterations>>
       ELSE IF config.start.some
       THEN enter_metaheuristic(config.start.sol)
       ELSE /\ cpc' = "seed"
            /\ pc' = "idle"
            /\ UNCHANGED <<starting_sol, best, missed_improvements, iterations>>
    /\ UNCHANGED <<graph, config, heap, routes, node_route, pool, err, step, result, runs, gen>>

\* lines 331-332, once the heuristic run of `config.start or ...` has returned
call_seed ==
    /\ cpc = "seed"
    /\ pc = "returned"
    /\ enter_metaheuristic(result)
    /\ UNCHANGED <<graph, config, heap, routes, node_route, pool, err, step, result,
                   baseline, runs, gen>>

\* lines 307-318, once the heuristic run of one iteration has returned
metaheuristic_iter ==
    /\ cpc = "iter"
    /\ pc = "returned"
    /\ iterations' = iterations + 1
    /\ LET better == improves(result.cost, best.cost)
           missed == IF better THEN 0 ELSE missed_improvements + 1
       IN /\ best' = IF better THEN result ELSE best
          /\ missed_improvements' = missed
          /\ IF missed > config.maxnoimp \/ iterations + 1 >= config.maxiter
             THEN cpc' = "done" /\ pc' = "returned"
             ELSE cpc' = "iter" /\ pc' = "idle"
    /\ UNCHANGED <<graph, config, heap, routes, node_route, pool, err, step, result,
                   baseline, starting_sol, runs, gen>>

----------------------------------------------------------------------------
(* biased_randomisation consumed on its own, one action per item yielded   *)
(* (lines 25-29).                                                          *)

biased_randomisation(array) ==
    [array |-> array, options |-> array, yielded |-> <<>>, left |-> Len(array),
     idx |-> 0, len |-> 0]

biased_next ==
    /\ gen.left > 0
    /\ gen.options # <<>>
    /\ \E draw \in 0..MaxDraw :
         LET idx == pop_index(draw, gen.options)
             popped == list_pop(gen.options, idx)
         IN gen' = [gen EXCEPT !.options = popped.rest,
                               !.yielded = Append(@, popped.item),
                               !.left = @ - 1,
                               !.idx = idx - 1,
                               !.len = Len(gen.options)]
    /\ UNCHANGED <<graph, config, hvars, mvars, runs>>

----------------------------------------------------------------------------
(* Instances and configurations.                                           *)

\* main.py, get_streets: one Street(i, j) per pair of itertools.combinations,
\* in that order (its inverse is not put in the list)
get_streets(n) ==
    LET S == {e \in (1..n) \X (1..n) : e[1] < e[2]}
        rank(e) == Cardinality({f \in S : f[1] < e[1] \/ (f[1] = e[1] /\ f[2] < e[2])})
    IN [k \in 1..Cardinality(S) |-> CHOOSE e \in S : rank(e) = k - 1]

RECURSIVE SelectSeq2(_, _)
SelectSeq2(s, keep) ==
    IF s = <<>> THEN <<>>
    ELSE (IF Head(s) \in keep THEN <<Head(s)>> ELSE <<>>) \o SelectSeq2(Tail(s), keep)

\* the sublists of get_streets of a length in EdgeCounts
EdgeLists(n) ==
    LET all == get_streets(n)
        S == {all[k] : k \in 1..Len(all)}
    IN {SelectSeq2(all, keep) : keep \in {K \in SUBSET S : Cardinality(K) \in EdgeCounts}}

Cities(n) == [1..n -> Coords]

\* the graphs main.py builds: every edge has its inverse, every customer its
\* dn_edge and nd_edge
Graphs ==
    UNION {[n : {n}, city : Cities(n), edges : EdgeLists(n), noinverse : {{}}, nodepot : {{}}] :
              n \in 2..MaxNodes}

\* maxcost: float('inf') (the default) or a finite ceiling
Ceilings == {[inf |-> TRUE, val |-> 0]} \cup {[inf |-> FALSE, val |-> v] : v \in {3, 5}}

\* minroutes: float('-inf') (the default) or a floor
NegInf == -1
Floors == {NegInf} \cup 1..(MaxNodes + 1)

\* CWSConfiguration's defaults
DefaultMaxIter == 1000
DefaultMaxNoImp == 500
None == [some |-> FALSE, sol |-> NoSolution]

\* the configurations of a heuristic run on its own
Configs ==
    [biased : BOOLEAN, reverse : BOOLEAN, maxcost : Ceilings, minroutes : Floors,
     metaheuristic : {FALSE}, start : {None},
     maxiter : {DefaultMaxIter}, maxnoimp : {DefaultMaxNoImp}]

InitRun ==
    /\ heap = <<>>
    /\ routes = <<>>
    /\ node_route = [n \in Customers(graph) |-> 0]
    /\ pool = <<>>
    /\ pc = "idle"
    /\ err = ""
    /\ step = NoStep
    /\ result = NoSolution
    /\ runs = 0
    /\ baseline = NoSolution
    /\ starting_sol = NoSolution
    /\ best = NoSolution
    /\ missed_improvements = 0
    /\ iterations = 0

Init ==
    /\ graph \in Graphs
    /\ config \in Configs
    /\ cpc = "none"
    /\ gen = biased_randomisation(<<>>)
    /\ InitRun

Next == heuristic_begin \/ heuristic_iter \/ heuristic_end

Spec == Init /\ [][Next]_vars

----------------------------------------------------------------------------
(* __call__ on the instances of three customers with every street.         *)

MetaGraphs == {g \in Graphs : g.n = 3 /\ g.edges = get_streets(3) /\ g.city[3] = 2}

\* a start supplied by the caller: a solution found by other means
Starts == {[some |-> TRUE, sol |-> [routes |-> <<>>, cost |-> c]] : c \in {4, 6}}

MetaConfigs ==
    [biased : BOOLEAN, reverse : BOOLEAN, maxcost : {[inf |-> TRUE, val |-> 0]},
     minroutes : {NegInf, 2},
     metaheuristic : BOOLEAN, start : {None} \cup Starts,
     maxiter : 0..MaxIter, maxnoimp : 0..MaxNoImp]

InitMeta ==
    /\ graph \in MetaGraphs
    /\ config \in MetaConfigs
    /\ cpc = "call"
    /\ gen = biased_randomisation(<<>>)
    /\ InitRun

NextMeta ==
    \/ call_begin \/ call_baseline \/ call_seed \/ metaheuristic_iter
    \/ heuristic_begin \/ heuristic_iter \/ heuristic_end

SpecMeta == InitMeta /\ [][NextMeta]_vars

\* __call__ is sequential code: whenever a step is possible it is taken.
\* Weak fairness of every action; for heuristic_begin and heuristic_iter it is
\* written out, []<>~ENABLED <<A>>_vars \/ []<><<A>>_vars, with the guard of
\* the action for ENABLED (both actions change vars whenever their guard holds:
\* runs grows, pool shrinks).
heuristic_begin_enabled == pc = "idle" /\ cpc \in {"none", "baseline", "seed", "iter"}
heuristic_iter_enabled == pc = "loop" /\ pool # <<>>

Fairness ==
    /\ WF_vars(call_begin)
    /\ WF_vars(call_baseline)
    /\ WF_vars(call_seed)
    /\ WF_vars(metaheuristic_iter)
    /\ WF_vars(heuristic_end)
    /\ ([]<>(~heuristic_begin_enabled) \/ []<><<heuristic_begin>>_vars)
    /\ ([]<>(~heuristic_iter_enabled) \/ []<><<heuristic_iter>>_vars)

SpecMetaFair == SpecMeta /\ Fairness

----------------------------------------------------------------------------
(* heuristic on malformed graphs: a graph of Graphs with one defect, an    *)
(* edge (a street or a depot edge) whose inverse was left None             *)
(* (cws/edge.py, line 28) or a customer built with a dn_edge or nd_edge of *)
(* None.                                                                   *)

DepotEdges(n) == {dn_edge(k) : k \in 1..n} \cup {nd_edge(k) : k \in 1..n}

\* g with one defect among its own edges and customers
Malformed(g) ==
    {[g EXCEPT !.noinverse = {e}] :
        e \in {g.edges[k] : k \in 1..Len(g.edges)} \cup DepotEdges(g.n)}
    \cup {[g EXCEPT !.nodepot = {n}] : n \in Customers(g)}

MalformedConfigs ==
    {c \in Configs : c.maxcost.inf /\ c.minroutes = NegInf}

InitMalformed ==
    /\ \E g \in Graphs : graph \in Malformed(g)
    /\ config \in MalformedConfigs
    /\ cpc = "none"
    /\ gen = biased_randomisation(<<>>)
    /\ InitRun

SpecMalformed == InitMalformed /\ [][Next]_vars

----------------------------------------------------------------------------
(* A generator of biased_randomisation on every array of at most MaxLen    *)
(* items.                                                                  *)

Items == {1, 2, 3}

Arrays == UNION {[1..k -> Items] : k \in 0..MaxLen}

InitBias ==
    /\ graph = [n |-> 2, city |-> [k \in 1..2 |-> 1], edges |-> <<>>,
                 noinverse |-> {}, nodepot |-> {}]
    /\ config \in {c \in Configs : c.biased /\ c.reverse /\ c.maxcost.inf /\ c.minroutes = NegInf}
    /\ cpc = "gen"
    /\ \E array \in Arrays : gen = biased_randomisation(array)
    /\ InitRun

NextBias == biased_next

SpecBias == InitBias /\ [][NextBias]_vars

----------------------------------------------------------------------------
(* Properties.                                                             *)

\* the customers a route visits, in order: the destination of each of its
\* edges but the last (the way line 278 walks a route)
Visits(r) == [k \in 1..(Len(r.edges) - 1) |-> dest(r.edges[k])]

\* how often customer n is visited by the routes rs
Occurrences(rs, n) ==
    Cardinality({p \in (1..Len(rs)) \X (1..(MaxNodes + 3)) :
                    p[2] <= Len(Visits(rs[p[1]])) /\ Visits(rs[p[1]])[p[2]] = n})

\* a path depot -> ... -> depot
Contiguous(r) ==
    /\ r.edges # <<>>
    /\ origin(r.edges[1]) = Depot
    /\ dest(r.edges[Len(r.edges)]) = Depot
    /\ \A k \in 1..(Len(r.edges) - 1) : dest(r.edges[k]) = origin(r.edges[k + 1])

CostConsistent(r) == r.cost = SumCost(graph, r.edges)

Min(a, b) == IF a <= b THEN a ELSE b

\* C1 (partition): the routes heuristic returns visit every customer exactly
\* once: each customer is in exactly one returned route, at one position.
C1_Partition ==
    pc = "returned" => \A n \in Customers(graph) : Occurrences(result.routes, n) = 1

\* C2 (contiguity): after every processed edge and at return, every route of
\* the active list is a path depot -> ... -> depot.
C2_Contiguity ==
    pc \in {"loop", "returned"} =>
        \A k \in 1..Len(routes) : Contiguous(heap[routes[k]])

\* C3 (cost consistency): in every state of heuristic the cached cost of every
\* Route (active, reversed copy or absorbed) is the sum of the costs of its
\* edges, and stays so under each single mutation and under reversal.
C3_CostConsistency ==
    /\ \A k \in 1..Len(heap) :
         LET r == heap[k]
         IN /\ CostConsistent(r)
            /\ CostConsistent(_reversed(graph, r))
            /\ r.edges # <<>> =>
                 /\ CostConsistent(popleft(graph, r))
                 /\ CostConsistent(popright(graph, r))
                 /\ CostConsistent(append(graph, popright(graph, r), r.edges[1]))
                 /\ CostConsistent(extend(graph, popright(graph, r), popleft(graph, r).edges))
    /\ \A k \in 1..Len(result.routes) : CostConsistent(result.routes[k])

\* a merge that went through a reversed copy has joined two routes of two
\* customers each
C3_Witness ==
    /\ step.kind \in {"revi", "revj"}
    /\ err = ""
    /\ \E k \in 1..Len(routes) : Len(heap[routes[k]].edges) = 5

\* C4 (feasibility): with a finite maxcost that every round trip
\* depot -> customer -> depot respects, every returned route costs at most
\* maxcost.
C4_Feasibility ==
    (/\ pc = "returned"
     /\ ~config.maxcost.inf
     /\ \A n \in Customers(graph) :
          cost(graph, dn_edge(n)) + cost(graph, nd_edge(n)) <= config.maxcost.val)
    => \A k \in 1..Len(result.routes) : result.routes[k].cost <= config.maxcost.val

\* C5 (route floor), as amended: heuristic returns at least
\* min(minroutes, number of customers) routes.
C5_RouteFloor ==
    pc = "returned" => Len(result.routes) >= Min(config.minroutes, graph.n)

\* the floor stopped the merging loop after a merge had been made
C5_Witness ==
    /\ pc = "returned"
    /\ step.kind = "floor"
    /\ Len(result.routes) = config.minroutes
    /\ config.minroutes < graph.n

\* C5 as stated: heuristic returns at least minroutes routes.
C5_Original == pc = "returned" => Len(result.routes) >= config.minroutes

\* C6 (monotone improvement): the best cost _metaheuristic holds never
\* increases from one iteration to the next, and is never above the cost of
\* the starting solution, up to and including the solution returned.
C6_MonotoneImprovement ==
    [][(config.metaheuristic /\ cpc' \in {"iter", "done"}) =>
          /\ best'.cost <= starting_sol'.cost
          /\ cpc = "iter" => best'.cost <= best.cost]_vars

\* _metaheuristic has returned a solution cheaper than the one it started
\* from, after a last iteration whose costlier solution it turned down
C6_Witness ==
    /\ cpc = "done"
    /\ config.metaheuristic
    /\ best.cost < starting_sol.cost
    /\ result.cost > best.cost

\* C7 (top-level seed): __call__ runs heuristic once for the baseline; without
\* metaheuristic it returns the baseline; with it, _metaheuristic starts from
\* config.start if supplied and else from that baseline, no further heuristic
\* run having been made for the seed.
C7_TopLevelSeed ==
    /\ (cpc = "done" /\ ~config.metaheuristic) => (best = baseline /\ runs = 1)
    /\ (cpc \in {"iter", "done"} /\ config.metaheuristic) =>
         /\ starting_sol = (IF config.start.some THEN config.start.sol ELSE baseline)
         /\ (pc = "idle" \/ cpc = "done") => runs = 1 + iterations

\* C8 (permutation): a generator of biased_randomisation over an array of N
\* items pops only indices inside the remaining pool, has yielded after k
\* steps k of the items and keeps the others, each as often as the array
\* holds it, and ends after exactly N items.
C8_Permutation ==
    /\ gen.len > 0 => (0 <= gen.idx /\ gen.idx < gen.len)
    /\ Len(gen.yielded) + gen.left = Len(gen.array)
    /\ Len(gen.options) = gen.left
    /\ \A x \in Items :
         Cardinality({k \in 1..Len(gen.yielded) : gen.yielded[k] = x})
           + Cardinality({k \in 1..Len(gen.options) : gen.options[k] = x})
         = Cardinality({k \in 1..Len(gen.array) : gen.array[k] = x})

\* a generator that has ended, having yielded a longest array of distinct
\* items in another order
C8_Witness ==
    /\ gen.left = 0
    /\ Len(gen.array) = MaxLen
    /\ \A a, b \in 1..Len(gen.array) : a # b => gen.array[a] # gen.array[b]
    /\ gen.yielded # gen.array

\* C9 (infeasibility is not an error): on a well-formed graph heuristic never
\* ends by raising.
C9_NeverRaises == pc # "raised"

\* C10 (two customers): with two customers joined by a street, minroutes = 1,
\* maxcost = inf and biased = False, heuristic does not raise and returns one
\* route: depot -> a, the street a -> b or its inverse, b -> depot.
C10_TwoCustomerMerge ==
    (/\ graph.n = 2
     /\ graph.edges # <<>>
     /\ config.minroutes = 1
     /\ config.maxcost.inf
     /\ ~config.biased)
    => /\ pc # "raised"
       /\ pc = "returned" =>
            /\ Len(result.routes) = 1
            /\ \E a, b \in Customers(graph) :
                 /\ a # b
                 /\ InList(graph.edges, <<a, b>>) \/ InList(graph.edges, <<b, a>>)
                 /\ result.routes[1].edges = <<dn_edge(a), <<a, b>>, nd_edge(b)>>

C10_Witness ==
    /\ graph.n = 2
    /\ graph.edges # <<>>
    /\ config.minroutes = 1
    /\ config.maxcost.inf
    /\ ~config.biased
    /\ pc = "returned"
    /\ Len(result.routes) = 1

\* the dummy solution: one route [dn_edge, nd_edge] per customer, and the sum
\* of the round trips depot -> customer -> depot
RECURSIVE RoundTrips(_, _)
RoundTrips(g, n) ==
    IF n = 0 THEN 0
    ELSE cost(g, dn_edge(n)) + cost(g, nd_edge(n)) + RoundTrips(g, n - 1)

DummyRoutes(g) ==
    [n \in Customers(g) |->
        [edges |-> <<dn_edge(n), nd_edge(n)>>,
         cost |-> cost(g, dn_edge(n)) + cost(g, nd_edge(n))]]

\* no route has been merged: every Route object made so far has its two edges
NoMerge == \A k \in 1..Len(heap) : Len(heap[k].edges) = 2

\* C11 (floor equal to the number of nodes): with minroutes equal to the number
\* of customers heuristic merges nothing, does not raise, and returns the
\* dummy solution, whose cost is the sum of the round trips.
C11_FloorEqualNodes ==
    config.minroutes = graph.n =>
        /\ pc # "raised"
        /\ NoMerge
        /\ step.kind \in {"none", "floor"}
        /\ pc = "returned" =>
             /\ result.routes = DummyRoutes(graph)
             /\ result.cost = RoundTrips(graph, graph.n)

\* the floor check has ended a run over a list of three streets, drawn in a
\* biased order, at its first edge
C11_Witness ==
    /\ config.minroutes = graph.n
    /\ graph.n = MaxNodes
    /\ Len(graph.edges) = 3
    /\ config.biased
    /\ pc = "returned"
    /\ step.kind = "floor"
    /\ step.edge # graph.edges[1]

\* the cost a merge of the singleton routes of a and b is tested with
PairMergeCost(g, e) ==
    cost(g, dn_edge(origin(e))) + cost(g, nd_edge(origin(e)))
      + cost(g, dn_edge(dest(e))) + cost(g, nd_edge(dest(e))) - saving(g, e)

CeilingBelowEveryMerge ==
    /\ ~config.maxcost.inf
    /\ \A k \in 1..Len(graph.edges) :
         PairMergeCost(graph, graph.edges[k]) > config.maxcost.val

\* C12 (ceiling below every merge): with maxcost below the cost of the merge
\* of any two singleton routes along a street of the graph, heuristic merges
\* nothing, whatever reverse and the order, and returns the dummy routes.
C12_CeilingBelowMerges ==
    CeilingBelowEveryMerge =>
        /\ pc # "raised"
        /\ NoMerge
        /\ pc \in {"loop", "returned"} =>
             [k \in 1..Len(routes) |-> heap[routes[k]]] = DummyRoutes(graph)
        /\ pc = "returned" => result.routes = DummyRoutes(graph)

\* a run with reversals allowed has returned after turning down every one of
\* three streets
C12_Witness ==
    /\ CeilingBelowEveryMerge
    /\ config.reverse
    /\ Len(graph.edges) = 3
    /\ pc = "returned"
    /\ step.kind = "direct_infeasible"
    /\ pool = <<>>

\* C13 (malformed graph): on a graph with an edge that has no inverse, or a
\* customer that lacks its dn_edge or nd_edge, heuristic does not return: it
\* ends in a structural error, and no route has been merged when it raises.
C13_MalformedFailsFast ==
    /\ pc # "returned"
    /\ pc = "raised" => (err = "AttributeError" /\ NoMerge)

\* the active routes, and the route each customer refers to, as edge
\* sequences with their costs
ActiveRoutes == [k \in 1..Len(routes) |-> heap[routes[k]]]
NodeRoutes == [n \in Customers(graph) |-> heap[node_route[n]]]

\* C14 (back references): after every processed edge and at return, every
\* customer's node.route is a route of the active list and visits it.
C14_BackReferences ==
    pc \in {"loop", "returned"} =>
        \A n \in Customers(graph) :
            /\ InList(routes, node_route[n])
            /\ \E k \in 1..Len(Visits(heap[node_route[n]])) :
                 Visits(heap[node_route[n]])[k] = n

Infeasible ==
    {"direct_infeasible", "both_infeasible", "revi_infeasible", "revj_infeasible",
     "asis_infeasible"}

\* C15 (abandoned merge): a step whose candidate merge fails the maxcost test
\* leaves the active list, every active route's edges and cost, and every
\* customer's route reference as they were.
C15_AbandonedMergeFrame ==
    [][(pc = "loop" /\ pc' = "loop" /\ step'.kind \in Infeasible) =>
          /\ routes' = routes
          /\ ActiveRoutes' = ActiveRoutes
          /\ node_route' = node_route
          /\ NodeRoutes' = NodeRoutes]_vars

Merged == {"direct", "both", "revi", "revj", "asis"}

\* the route a merge has built: iroute, or the reversed copy of iroute
MergedInto(kind, h, i) == IF kind = "revi" THEN Len(h) ELSE i

\* C16 (merge cost): after every successful merge, direct or helped by a
\* reversal, the cost of the merged route is the sum of the costs of the two
\* routes before the merge minus the saving of the edge used.
C16_MergeCost ==
    [][(pc = "loop" /\ pool' # pool /\ step'.kind \in Merged /\ err' = "") =>
          LET e == step'.edge
              i == node_route[origin(e)]
              j == node_route[dest(e)]
          IN heap'[MergedInto(step'.kind, heap', i)].cost
               = heap[i].cost + heap[j].cost - saving(graph, e)]_vars

\* the edge e meets the condition of the merge with no reversal (line 227)
\* between two different routes, and the merge is feasible (line 229)
DirectCase(e) ==
    LET i == node_route[origin(e)]
        j == node_route[dest(e)]
    IN /\ i # j
       /\ origin(e) = last_node(heap[i])
       /\ dest(e) = first_node(heap[j])
       /\ Le(heap[i].cost + heap[j].cost - saving(graph, e), config.maxcost)

\* C17 (direct merge): a step that processes an edge e in the direct case
\* leaves iroute with its old edges but the last, then e, then jroute's old
\* edges but the first; jroute is out of the active list, which is one route
\* shorter; every customer jroute visited refers to iroute.
C17_DirectMerge ==
    [][(pc = "loop" /\ pool' # pool /\ step'.kind # "floor" /\ DirectCase(step'.edge)) =>
          LET e == step'.edge
              i == node_route[origin(e)]
              j == node_route[dest(e)]
              old_i == heap[i].edges
              old_j == heap[j].edges
          IN /\ heap'[i].edges =
                  SubSeq(old_i, 1, Len(old_i) - 1) \o <<e>> \o SubSeq(old_j, 2, Len(old_j))
             /\ ~InList(routes', j)
             /\ Len(routes') = Len(routes) - 1
             /\ \A k \in 1..(Len(old_j) - 1) : node_route'[dest(old_j[k])] = i]_vars

\* rr is r reversed: the edges of r in reverse positional order, each with its
\* end points swapped, at the same cost
ReversedOf(rr, r) ==
    /\ Len(rr.edges) = Len(r.edges)
    /\ \A k \in 1..Len(r.edges) :
         /\ origin(rr.edges[k]) = dest(r.edges[Len(r.edges) + 1 - k])
         /\ dest(rr.edges[k]) = origin(r.edges[Len(r.edges) + 1 - k])
    /\ rr.cost = r.cost

Reversals == {"revi", "revj", "revi_infeasible", "revj_infeasible"}

RunsBefore == IF config.start.some THEN 1 ELSE 2

\* C19 (stopping): _metaheuristic runs heuristic at most maxiter times; an
\* iteration sets the stagnation counter to zero if its cost is strictly lower
\* than the best and otherwise adds one to it; the loop ends at an iteration
\* exactly when the counter exceeds maxnoimp or maxiter iterations are done;
\* and __call__ always terminates.
C19_Stopping ==
    /\ []((config.metaheuristic /\ cpc \in {"iter", "done"}) =>
             /\ iterations <= config.maxiter
             /\ runs - RunsBefore <= config.maxiter
             /\ missed_improvements <= iterations)
    /\ [][(cpc = "iter" /\ iterations' # iterations) =>
             /\ iterations' = iterations + 1
             /\ missed_improvements' =
                  (IF result.cost < best.cost THEN 0 ELSE missed_improvements + 1)
             /\ (cpc' = "done") <=>
                  (missed_improvements' > config.maxnoimp \/ iterations' = config.maxiter)
             /\ (cpc' = "done" /\ iterations' < config.maxiter) =>
                  (missed_improvements' = config.maxnoimp + 1 /\ runs = RunsBefore + iterations')]_vars
    /\ <>(cpc = "done" \/ pc = "raised")

\* _metaheuristic has returned early, on stagnation, with iterations to spare
C19_Witness ==
    /\ cpc = "done"
    /\ config.metaheuristic
    /\ iterations < config.maxiter
    /\ missed_improvements > config.maxnoimp

\* C20 (restart determinism): with biased = False every invocation of
\* heuristic starts from the full dummy solution, with every customer on its
\* own new route and the whole savings list ahead, and every invocation after
\* the first returns what the first returned, routes and cost.
C20_RestartDeterminism ==
    ~config.biased =>
        /\ (pc = "loop" /\ step = NoStep) =>
             /\ ActiveRoutes = DummyRoutes(graph)
             /\ NodeRoutes = DummyRoutes(graph)
             /\ pool = savings_list(graph, graph.edges)
        /\ (pc = "returned" /\ cpc \in {"seed", "iter", "done"}) => result = baseline

\* a third invocation has returned the first one's solution, the one before
\* it having left a customer on a route that is not in its list
C20_Witness ==
    /\ ~config.biased
    /\ runs >= 3
    /\ pc = "returned"
    /\ cpc = "iter"
    /\ result = baseline
    /\ Len(result.routes) < graph.n
    /\ \E n \in Customers(graph) : ~InList(routes, node_route[n])

====
